---------------------------- MODULE Spec2Model ----------------------------
(* A model of the SignalParser class of TabRF (signal_parser.h): the        *)
(* protocol and code tables, the timing matcher parse() and the composer    *)
(* compose().  Texts are sequences of one-character strings, durations and  *)
(* counters keep the width of their C types; int is 32 bits wide, as on the *)
(* ESP cores the library is written for.                                    *)
EXTENDS Integers, Sequences, FiniteSets, TLC

VARIABLES
  protocol,        \* _protocol[0 .. _protocolCount-1]
  code,            \* _code[0 .. _codeCount-1], with the transient cnt and valid
  baseTimes,       \* per code: the non-zero times t1..t8 handed to newCode
  debugMode,       \* _debugMode
  callbackFunc,    \* _callbackFunc is set (TRUE) or still null (FALSE)
  seq,             \* _seq[0 .. _seq_length-1]
  seq_codelength,  \* _seq_codelength
  rawCount,        \* history: the durations accepted since the last full reset
  seq_protocol,    \* _seq_protocol: 0 is nullptr, n is &_protocol[n-1]
  timings,         \* the caller's buffer handed to compose()
  emitted,         \* the texts handed to the callback by the last parse()
  checks,          \* the per-code verdicts TRACE_MSG reports for the last parse()
  last,            \* the last call: its name, arguments, locals and return value
  fault,           \* "none", or the undefined behaviour the program has run into
  todo             \* what is left of the sketch's setup()

vars == <<protocol, code, baseTimes, debugMode, callbackFunc, seq, seq_codelength,
          rawCount,
          seq_protocol, timings, emitted, checks, last, fault, todo>>

-----------------------------------------------------------------------------
(* Program constants                                                        *)

MAX_CODELENGTH == 8

MAX_SEQUENCE_LENGTH == 120

PROTNAME_LEN == 12

SP_START == 1

SP_DATA == 2

SP_END == 4

SP_ANY == 6

\* sizeof(buffer) of the text handed to the callback for an accepted sequence
ACCEPT_BUFFER == 64

\* sizeof(buffer) of the diagnostic text
DEBUG_BUFFER == 16

\* the threshold of the diagnostic
DEBUG_MIN_LENGTH == 10

\* uint8_t and uint16_t (CodeTime) arithmetic
U8 == 256

U16 == 65536

-----------------------------------------------------------------------------
(* Helpers for C strings and integers                                       *)

\* (type & flag) != 0 for one of the single-bit flags SP_START, SP_DATA, SP_END
HasFlag(type, flag) == (type \div flag) % 2 = 1

\* (type & SP_ANY) != 0
HasAny(type) == HasFlag(type, SP_DATA) \/ HasFlag(type, SP_END)

\* the first n elements of s (all of s when it is shorter)
Take(s, n) == SubSeq(s, 1, IF Len(s) < n THEN Len(s) ELSE n)

\* what snprintf(buffer, size, ...) leaves in buffer for the full text s
Snprintf(size, s) == Take(s, size - 1)

RECURSIVE Dec(_)
\* "%d" of a non-negative int
Dec(n) ==
  LET digit == <<"0", "1", "2", "3", "4", "5", "6", "7", "8", "9">>[(n % 10) + 1]
  IN IF n < 10 THEN <<digit>> ELSE Dec(n \div 10) \o <<digit>>

\* Body applied to the value of v, which is computed once
With(v, Body(_)) == CHOOSE y \in {Body(x) : x \in {v}} : TRUE

\* the least element of a non-empty set of numbers
Least(S) == CHOOSE i \in S : \A j \in S : i <= j

\* strchr(s, ' '): the position of the first space, 0 for a null result
StrchrSpace(s) ==
  LET hits == {i \in 1..Len(s) : s[i] = " "}
  IN IF hits = {} THEN 0 ELSE Least(hits)


-----------------------------------------------------------------------------
(* The tables                                                               *)

\* _protocolCount
protocolCount == Len(protocol)

\* _codeCount
codeCount == Len(code)

\* _seq_length
seq_length == Len(seq)

\* the linear scans of _findProt and _findCode: the first index whose entry
\* satisfies Test, 0 (nullptr) when the count runs out
FindFirst(table, Test(_)) ==
  LET hits == {i \in 1..Len(table) : Test(table[i])}
  IN IF hits = {} THEN 0 ELSE Least(hits)

\* _findProt(uint8_t protId)
FindProtById(prots, protId) == FindFirst(prots, LAMBDA p : p.id = protId)

\* _findProt(char *name): strcmp
FindProtByName(prots, name) == FindFirst(prots, LAMBDA p : p.name = name)

\* _findCode(protId, codeName)
FindCode(codes, protId, codeName) ==
  FindFirst(codes, LAMBDA c : c.protId = protId /\ c.name = codeName)

\* newProtocol: the new table and the returned id (both uint8_t)
NewProtocolOp(prots, name, minLen, maxLen, tolerance, repeat) ==
  IF (minLen > maxLen) \/ (maxLen >= MAX_SEQUENCE_LENGTH)
  THEN [protocol |-> prots, result |-> 0]
  ELSE LET count == Len(prots) + 1
           p == [id |-> count % U8,
                 name |-> Take(name, PROTNAME_LEN - 1),
                 minCodeLen |-> minLen,
                 maxCodeLen |-> maxLen,
                 tolerance |-> tolerance,
                 sendRepeat |-> repeat,
                 length |-> 0]
       IN [protocol |-> Append(prots, p), result |-> count % U8]

\* the times among t1..t8 that are non-zero, in order: what newCode stores
NonZeroTimes(times) == SelectSeq(times, LAMBDA t : t > 0)

\* uint16_t radius = (t * p->tolerance) / 100
Radius(t, tolerance) == ((t * tolerance) \div 100) % U16

\* c->minTime[i] = t - radius
MinTimeOf(t, tolerance) == (t - Radius(t, tolerance)) % U16

\* c->maxTime[i] = t + radius
MaxTimeOf(t, tolerance) == (t + Radius(t, tolerance)) % U16

\* what the slots newCode does not write may hold: realloc hands out memory
\* as it is.  Windows that no duration and that every duration falls into
StaleWindows == {[min |-> 0, max |-> 0], [min |-> 0, max |-> U16 - 1]}

\* newCode: the new code table; unchanged for an unregistered protId.  The
\* slots from length on keep what the memory held (stale); only a code of
\* length 0 is ever read there, so they are kept for such a code only
NewCodeOp(prots, codes, protId, ch, type, times, stale) ==
  LET pi == FindProtById(prots, protId)
      ts == NonZeroTimes(times)
      c == [protId |-> protId,
            name |-> ch,
            type |-> type,
            cnt |-> 0,
            valid |-> TRUE,
            length |-> Len(ts),
            minTime |-> IF Len(ts) = 0
                        THEN [i \in 1..MAX_CODELENGTH |-> stale.min]
                        ELSE [i \in 1..Len(ts) |->
                                MinTimeOf(ts[i], prots[pi].tolerance)],
            maxTime |-> IF Len(ts) = 0
                        THEN [i \in 1..MAX_CODELENGTH |-> stale.max]
                        ELSE [i \in 1..Len(ts) |->
                                MaxTimeOf(ts[i], prots[pi].tolerance)]]
  IN IF pi = 0 THEN codes ELSE Append(codes, c)

\* _resetCode: every code's cnt = 0 and valid = true
ResetCounters(codes) ==
  [k \in 1..Len(codes) |-> [codes[k] EXCEPT !.cnt = 0, !.valid = TRUE]]

-----------------------------------------------------------------------------
(* The matcher: parse(CodeTime duration)                                    *)

\* c->minTime[i], i counted from 0 as in the source
SlotMin(c, i) == c.minTime[i + 1]

\* c->maxTime[i]
SlotMax(c, i) == c.maxTime[i + 1]

\* the fault of a call that read c->minTime[i] with i beyond the array
OutsideFault(verdict, ub) ==
  IF verdict = "outside" THEN "read outside minTime" ELSE ub

\* the if-chain without the test of the locked protocol
CheckAnyProtocol(c, duration, seqLen, lockedId) ==
  LET i == c.cnt
  IN IF (seqLen = 0) /\ ~HasFlag(c.type, SP_START) THEN "n/s"
     ELSE IF (seqLen > 0) /\ ~HasAny(c.type) THEN "n/a type"
     ELSE IF HasFlag(c.type, SP_END) /\ (i = c.length - 1)
             /\ (duration > SlotMin(c, i)) THEN "end fits"
     ELSE IF i >= MAX_CODELENGTH THEN "outside"
     ELSE IF (duration < SlotMin(c, i)) \/ (duration > SlotMax(c, i)) THEN "failed"
     ELSE "fits"

\* The if-chain that decides whether duration fits the next slot of a live code
\* c, named by the TRACE_MSG of the branch taken.  lockedId is
\* _seq_protocol->id, read only when a sequence is in progress.
Check(c, duration, seqLen, lockedId) ==
  LET i == c.cnt
  IN IF (seqLen = 0) /\ ~HasFlag(c.type, SP_START) THEN "n/s"
     ELSE IF (seqLen > 0) /\ (c.protId # lockedId) THEN "n/a protocol"
     ELSE IF (seqLen > 0) /\ ~HasAny(c.type) THEN "n/a type"
     ELSE IF HasFlag(c.type, SP_END) /\ (i = c.length - 1)
             /\ (duration > SlotMin(c, i)) THEN "end fits"
     ELSE IF i >= MAX_CODELENGTH THEN "outside"
     ELSE IF (duration < SlotMin(c, i)) \/ (duration > SlotMax(c, i)) THEN "failed"
     ELSE "fits"

\* bool valid after the if-chain
Fits(verdict) == verdict \in {"end fits", "fits"}

\* The state of the while loop over the code table
LoopStart(codes) ==
  [code |-> codes, match |-> FALSE, retryCandidate |-> FALSE, foundCode |-> 0,
   checks |-> <<>>, ub |-> "none"]

RECURSIVE CodeLoopNoBreak(_, _, _, _, _)
\* the loop without the break at the first completing code: the codes behind
\* it are walked too, and the last code that completes is the one found
CodeLoopNoBreak(acc, duration, seqLen, lockedId, k) ==
  IF k > Len(acc.code) THEN acc
  ELSE
    LET c == acc.code[k]
    IN IF ~c.valid THEN CodeLoopNoBreak(acc, duration, seqLen, lockedId, k + 1)
       ELSE With(Check(c, duration, seqLen, lockedId), LAMBDA verdict :
           LET valid == Fits(verdict)
               i == c.cnt + 1
               entry == [k |-> k, slot |-> c.cnt, verdict |-> verdict]
               retry == (verdict = "failed") /\ (c.cnt > 0) /\ (seqLen = 0)
           IN With([acc EXCEPT !.code[k].valid = valid,
                               !.code[k].cnt = IF valid THEN i ELSE c.cnt,
                               !.match = acc.match \/ valid,
                               !.retryCandidate = acc.retryCandidate \/ retry,
                               !.ub = OutsideFault(verdict, acc.ub),
                               !.checks = Append(acc.checks, entry)],
                   LAMBDA next :
                     CodeLoopNoBreak(
                       IF valid /\ (i = c.length)
                       THEN [next EXCEPT !.foundCode = k,
                                         !.code = ResetCounters(next.code)]
                       ELSE next,
                       duration, seqLen, lockedId, k + 1)))

RECURSIVE CodeLoop(_, _, _, _, _)
\* while (c && len): one code per round, from code k on; the loop ends at the
\* first code that completes (break) or when the table is through
CodeLoop(acc, duration, seqLen, lockedId, k) ==
  IF k > Len(acc.code) THEN acc
  ELSE
    LET c == acc.code[k]
    IN IF ~c.valid THEN CodeLoop(acc, duration, seqLen, lockedId, k + 1)
       ELSE
         With(Check(c, duration, seqLen, lockedId), LAMBDA verdict :
           LET valid == Fits(verdict)
               i == c.cnt + 1
               entry == [k |-> k, slot |-> c.cnt, verdict |-> verdict]
               retry == (verdict = "failed") /\ (c.cnt > 0) /\ (seqLen = 0)
           IN With([acc EXCEPT !.code[k].valid = valid,
                               !.code[k].cnt = IF valid THEN i ELSE c.cnt,
                               !.match = acc.match \/ valid,
                               !.retryCandidate = acc.retryCandidate \/ retry,
                               !.ub = OutsideFault(verdict, acc.ub),
                               !.checks = Append(acc.checks, entry)],
                   LAMBDA next :
                     IF valid /\ (i = c.length)
                     THEN [next EXCEPT !.foundCode = k,
                                       !.code = ResetCounters(next.code)]
                     ELSE CodeLoop(next, duration, seqLen, lockedId, k + 1)))

\* A reset that forgets the sequence but leaves the codes as the loop left them
ResetKeepsCodes(m) ==
  [m EXCEPT !.seq = <<>>, !.seq_codelength = 0, !.seq_protocol = 0,
            !.raw = 0]

\* A reset that makes every code valid again but leaves its cnt
ResetLeavesCnt(m) ==
  [m EXCEPT !.code = [k \in 1..Len(m.code) |-> [m.code[k] EXCEPT !.valid = TRUE]],
            !.seq = <<>>, !.seq_codelength = 0, !.seq_protocol = 0,
            !.raw = 0]

\* _resetCode(true) applied to a matcher state
ResetAll(m) ==
  [m EXCEPT !.code = ResetCounters(m.code), !.seq = <<>>, !.seq_codelength = 0,
            !.seq_protocol = 0, !.raw = 0]

\* snprintf(buffer, sizeof(buffer), "%s %s", _seq_protocol->name, _seq)
AcceptText(name, s) == Snprintf(ACCEPT_BUFFER, name \o <<" ">> \o s)

\* snprintf(buffer, sizeof(buffer), "*%d,%d", _seq_codelength, _seq_length)
DebugText(codelength, length) ==
  Snprintf(DEBUG_BUFFER, <<"*">> \o Dec(codelength) \o <<",">> \o Dec(length))

\* What a parse() call hands back besides the matcher state
Outcome(m, texts, log, acc, depth, ub) ==
  [code |-> m.code, seq |-> m.seq, seq_codelength |-> m.seq_codelength,
   raw |-> m.raw,
   seq_protocol |-> m.seq_protocol, emitted |-> texts, checks |-> log,
   match |-> acc.match, foundCode |-> acc.foundCode,
   retryCandidate |-> acc.retryCandidate, depth |-> depth, fault |-> ub]

\* the branch without the test of the buffer cap
FoundBranchNoCap(env, m, acc) ==
  LET c == acc.code[acc.foundCode]
      s == Append(m.seq, c.name)
      m1 == [code |-> acc.code, seq |-> s,
             seq_codelength |-> (m.seq_codelength + 1) % U8,
             raw |-> m.raw + 1,
             seq_protocol |-> m.seq_protocol]
  IN IF Len(s) = 1
     THEN IF ~HasFlag(c.type, SP_START)
          THEN [m |-> ResetAll(m1), emitted |-> <<>>]
          ELSE [m |-> [m1 EXCEPT !.seq_protocol = FindProtById(env.protocol, c.protId)],
                emitted |-> <<>>]
     ELSE LET p == env.protocol[m.seq_protocol]
          IN IF HasFlag(c.type, SP_END) \/ (Len(s) = p.maxCodeLen)
             THEN [m |-> ResetAll(m1),
                   emitted |-> IF env.callbackFunc /\ (Len(s) >= p.minCodeLen)
                               THEN <<AcceptText(p.name, s)>> ELSE <<>>]
             ELSE [m |-> m1, emitted |-> <<>>]

\* if (foundCode): the first code locks the protocol, an END code or the
\* protocol's maxCodeLen ends the sequence, the buffer cap drops it
FoundBranch(env, m, acc) ==
  LET c == acc.code[acc.foundCode]
      s == Append(m.seq, c.name)
      m1 == [code |-> acc.code, seq |-> s,
             seq_codelength |-> (m.seq_codelength + 1) % U8,
             raw |-> m.raw + 1,
             seq_protocol |-> m.seq_protocol]
  IN IF Len(s) = 1
     THEN IF ~HasFlag(c.type, SP_START)
          THEN [m |-> ResetAll(m1), emitted |-> <<>>]
          ELSE [m |-> [m1 EXCEPT !.seq_protocol = FindProtById(env.protocol, c.protId)],
                emitted |-> <<>>]
     ELSE LET p == env.protocol[m.seq_protocol]
          IN IF HasFlag(c.type, SP_END) \/ (Len(s) = p.maxCodeLen)
             THEN [m |-> ResetAll(m1),
                   emitted |-> IF env.callbackFunc /\ (Len(s) >= p.minCodeLen)
                               THEN <<AcceptText(p.name, s)>> ELSE <<>>]
             ELSE IF Len(s) = MAX_SEQUENCE_LENGTH - 2
             THEN [m |-> ResetAll(m1), emitted |-> <<>>]
             ELSE [m |-> m1, emitted |-> <<>>]

\* parse() after the while loop without the second look at the duration
AfterLoopNoRetry(env, m, duration, acc) ==
  IF acc.ub # "none"
  THEN Outcome([m EXCEPT !.code = acc.code], <<>>, <<acc.checks>>, acc, 1, acc.ub)
  ELSE IF ~acc.match
  THEN LET diag == env.debugMode /\ (Len(m.seq) > DEBUG_MIN_LENGTH)
           text == IF diag
                   THEN <<DebugText(m.seq_codelength, Len(m.seq))>>
                   ELSE <<>>
           m1 == ResetAll([m EXCEPT !.code = acc.code])
       IN IF diag /\ ~env.callbackFunc
          THEN Outcome([m EXCEPT !.code = acc.code], <<>>, <<acc.checks>>,
                       acc, 1, "call of a null callback")
          ELSE Outcome(m1, text, <<acc.checks>>, acc, 1, "none")
  ELSE IF acc.foundCode # 0
  THEN LET f == FoundBranch(env, m, acc)
       IN Outcome(f.m, f.emitted, <<acc.checks>>, acc, 1, "none")
  ELSE Outcome([m EXCEPT !.code = acc.code,
                         !.seq_codelength = (m.seq_codelength + 1) % U8,
                         !.raw = m.raw + 1],
               <<>>, <<acc.checks>>, acc, 1, "none")

RECURSIVE ParseCall(_, _, _)

\* parse() after the while loop, with the loop's result acc: no match resets
\* everything (and may parse the duration again, as long as the call stack has
\* room for it: env.stack frames are left), a match counts the duration
AfterLoop(env, m, duration, acc) ==
  IF acc.ub # "none"
  THEN Outcome([m EXCEPT !.code = acc.code], <<>>, <<acc.checks>>, acc, 1, acc.ub)
  ELSE IF ~acc.match
  THEN LET diag == env.debugMode /\ (Len(m.seq) > DEBUG_MIN_LENGTH)
           text == IF diag
                   THEN <<DebugText(m.seq_codelength, Len(m.seq))>>
                   ELSE <<>>
           m1 == ResetAll([m EXCEPT !.code = acc.code])
       IN IF diag /\ ~env.callbackFunc
          THEN Outcome([m EXCEPT !.code = acc.code], <<>>, <<acc.checks>>,
                       acc, 1, "call of a null callback")
          ELSE IF acc.retryCandidate /\ (env.stack = 0)
          THEN Outcome(m1, text, <<acc.checks>>, acc, 1, "stack overflow")
          ELSE IF acc.retryCandidate
          THEN With(ParseCall([env EXCEPT !.stack = @ - 1], m1, duration),
                    LAMBDA r : [r EXCEPT !.emitted = text \o r.emitted,
                                         !.checks = <<acc.checks>> \o r.checks,
                                         !.match = acc.match,
                                         !.foundCode = acc.foundCode,
                                         !.retryCandidate = acc.retryCandidate,
                                         !.depth = r.depth + 1])
          ELSE Outcome(m1, text, <<acc.checks>>, acc, 1, "none")
  ELSE IF acc.foundCode # 0
  THEN LET f == FoundBranch(env, m, acc)
       IN Outcome(f.m, f.emitted, <<acc.checks>>, acc, 1, "none")
  ELSE Outcome([m EXCEPT !.code = acc.code,
                         !.seq_codelength = (m.seq_codelength + 1) % U8,
                         !.raw = m.raw + 1],
               <<>>, <<acc.checks>>, acc, 1, "none")

\* parse(CodeTime duration) on the matcher state m = [code, seq, seq_codelength,
\* seq_protocol, raw] with env = [protocol, callbackFunc, debugMode, stack]
ParseCall(env, m, duration) ==
  LET none == LoopStart(m.code)
  IN IF Len(env.protocol) = 0
     THEN Outcome(m, <<>>, <<>>, none, 1, "none")
     ELSE
       LET lockedId == IF Len(m.seq) > 0 THEN env.protocol[m.seq_protocol].id ELSE 0
       IN With(CodeLoop(none, duration, Len(m.seq), lockedId, 1),
               LAMBDA acc : AfterLoop(env, m, duration, acc))

RECURSIVE ParseList(_, _, _, _)
\* parse(CodeTime *durations): parse(*durations++) up to the zero that ends the
\* list; the texts handed to the callback on the way are collected
ParseList(env, m, durations, i) ==
  IF (i > Len(durations)) \/ (durations[i] = 0)
  THEN [m |-> m, emitted |-> <<>>, fault |-> "none"]
  ELSE With(ParseCall(env, m, durations[i]),
            LAMBDA r :
              LET m1 == [code |-> r.code, seq |-> r.seq,
                         seq_codelength |-> r.seq_codelength,
                         raw |-> r.raw,
                         seq_protocol |-> r.seq_protocol]
              IN IF r.fault # "none"
                 THEN [m |-> m1, emitted |-> r.emitted, fault |-> r.fault]
                 ELSE With(ParseList(env, m1, durations, i + 1),
                           LAMBDA rest : [rest EXCEPT !.emitted = r.emitted \o @]))

-----------------------------------------------------------------------------
(* The composer: compose(sequence, timings, len)                            *)

\* char protname[12]: the first 11 characters of sequence, cut at the first space
ProtnameOf(sequence) ==
  LET head == Take(sequence, PROTNAME_LEN - 1)
      sp == StrchrSpace(head)
  IN IF sp = 0 THEN head ELSE SubSeq(head, 1, sp - 1)

RECURSIVE ComposeLoop(_, _, _, _, _)
\* while (*s && len): the midpoints of the code named by each character from
\* position i on, in order; a character without a code adds nothing
ComposeLoop(codes, protId, sequence, i, len) ==
  IF (i > Len(sequence)) \/ (len = 0) THEN <<>>
  ELSE LET k == FindCode(codes, protId, sequence[i])
           mids == IF k = 0 THEN <<>>
                   ELSE [j \in 1..codes[k].length |->
                           (codes[k].minTime[j] + codes[k].maxTime[j]) \div 2]
       IN mids \o ComposeLoop(codes, protId, sequence, i + 1, len - 1)

\* compose with a non-null timings: the values written from timings[0] on (the
\* closing zero included), or the fault it runs into
ComposeOp(prots, codes, sequence, len) ==
  LET sp == StrchrSpace(sequence)
      p == FindProtByName(prots, ProtnameOf(sequence))
  IN IF p = 0 THEN [written |-> <<>>, fault |-> "none"]
     ELSE IF sp = 0 THEN [written |-> <<>>, fault |-> "read through a null pointer"]
     ELSE [written |-> ComposeLoop(codes, prots[p].id, sequence, sp + 1, len) \o <<0>>,
           fault |-> "none"]

-----------------------------------------------------------------------------
(* Bounds of the model and the inputs it draws                              *)

\* the nested parse() calls the call stack has room for
MaxStack == 3

\* the number of CodeTime elements of the buffer the caller hands to compose
TimingsSize == 8

\* compose is called with len in 0 .. MaxLen
MaxLen == 3

\* compose is called with texts of up to MaxText code characters
MaxText == 4

\* what an uninitialized CodeTime of the caller's buffer may hold
StaleFill == {0, 7}

\* one call of a sketch's setup()
Call(op, name, minLen, maxLen, tolerance, protId, ch, type, times, flag) ==
  [op |-> op, name |-> name, minLen |-> minLen, maxLen |-> maxLen,
   tolerance |-> tolerance, repeat |-> 3, protId |-> protId, ch |-> ch,
   type |-> type, times |-> times, flag |-> flag]

CallInit(debug) == Call("init", <<>>, 0, 0, 0, 0, "", 0, <<>>, debug)

CallAttach == Call("attachCallback", <<>>, 0, 0, 0, 0, "", 0, <<>>, TRUE)

CallProtocol(name, minLen, maxLen, tolerance) ==
  Call("newProtocol", name, minLen, maxLen, tolerance, 0, "", 0, <<>>, FALSE)

CallCode(protId, ch, type, times) ==
  Call("newCode", <<>>, 0, 0, 0, protId, ch, type, times, FALSE)

\* t1 .. t8 with the defaults of newCode
T1(a) == <<a, 0, 0, 0, 0, 0, 0, 0>>

T2(a, b) == <<a, b, 0, 0, 0, 0, 0, 0>>

\* a switch protocol: start, two data codes, end; 3 to 4 codes per sequence
SketchSwitch ==
  <<CallInit(FALSE),
    CallAttach,
    CallProtocol(<<"i", "t">>, 3, 4, 25),
    CallCode(1, "s", SP_START, T2(300, 2700)),
    CallCode(1, "0", SP_DATA, T2(300, 900)),
    CallCode(1, "1", SP_DATA, T2(900, 300)),
    CallCode(1, "x", SP_END, T2(300, 9000))>>

\* rejected registrations among accepted ones, and a protocol with maxLen 1
SketchShort ==
  <<CallAttach,
    CallProtocol(<<"b", "a", "d">>, 3, 2, 25),
    CallCode(0, "s", SP_START, T1(500)),
    CallProtocol(<<"b", "i", "g">>, 0, MAX_SEQUENCE_LENGTH, 25),
    CallProtocol(<<"o", "n", "e">>, 0, 1, 25),
    CallCode(7, "s", SP_START, T1(500)),
    CallCode(1, "s", SP_START + SP_END, T2(400, 4000)),
    CallCode(1, "x", SP_END, T2(400, 8000))>>

\* long pauses: base times whose window leaves the 16 bit range
SketchPause ==
  <<CallAttach,
    CallProtocol(<<"p">>, 2, 3, 25),
    CallCode(1, "s", SP_START, T2(300, 2700)),
    CallCode(1, "d", SP_DATA, T1(60000)),
    CallCode(1, "x", SP_END, T2(300, 60000)),
    CallProtocol(<<"w">>, 2, 3, 200),
    CallCode(2, "s", SP_START, T1(100))>>

\* sequences up to the buffer cap: one code per duration
SketchLong ==
  <<CallAttach,
    CallProtocol(<<"l", "o", "n", "g">>, 2, MAX_SEQUENCE_LENGTH - 1, 25),
    CallCode(1, "s", SP_START, T1(300)),
    CallCode(1, "d", SP_DATA, T1(600)),
    CallCode(1, "x", SP_END, T1(5000))>>

\* more protocols than a uint8_t id can tell apart
SketchMany ==
  [i \in 1..(U8 + 1) |-> CallProtocol(<<"m">>, 1, 2, 25)]
    \o <<CallAttach, CallCode(0, "s", SP_START, T1(300))>>

\* debug mode: diagnostics for attempts that fail after more than 10 codes
SketchDebug ==
  <<CallInit(TRUE),
    CallAttach,
    CallProtocol(<<"d", "b", "g">>, 2, 14, 25),
    CallCode(1, "s", SP_START, T1(300)),
    CallCode(1, "d", SP_DATA, T2(600, 600)),
    CallCode(1, "x", SP_END, T1(5000))>>

\* the times of a code of eight equal slots
T8(a) == <<a, a, a, a, a, a, a, a>>

\* debug mode with codes of eight slots: attempts of more than 255 durations
SketchWide ==
  <<CallInit(TRUE),
    CallAttach,
    CallProtocol(<<"w", "i", "d", "e">>, 2, 34, 0),
    CallCode(1, "s", SP_START, T8(300)),
    CallCode(1, "d", SP_DATA, T8(600))>>

\* protocols side by side: start codes that begin alike, codes that end alike
SketchPair ==
  <<CallAttach,
    CallProtocol(<<"a">>, 2, 3, 25),
    CallCode(1, "s", SP_START, T2(300, 2700)),
    CallCode(1, "x", SP_END, T2(300, 9000)),
    CallProtocol(<<"b">>, 2, 3, 25),
    CallCode(2, "t", SP_START, T1(300)),
    CallCode(2, "d", SP_DATA, T1(600)),
    CallCode(2, "D", SP_DATA, T1(600)),
    CallCode(2, "e", SP_END, T1(5000)),
    CallProtocol(<<"c">>, 2, 3, 25),
    CallCode(3, "r", SP_START, T1(300)),
    CallCode(3, "q", SP_DATA, T1(600))>>

\* a code registered with no time above zero
SketchZero ==
  <<CallAttach,
    CallProtocol(<<"z">>, 1, 2, 25),
    CallCode(1, "z", SP_START, T1(0)),
    CallCode(1, "s", SP_START, T1(300)),
    CallCode(1, "x", SP_END, T1(5000))>>

\* debug mode and no callback attached
SketchMute ==
  <<CallInit(TRUE),
    CallProtocol(<<"m", "u", "t", "e">>, 2, 13, 0),
    CallCode(1, "s", SP_START, T1(300)),
    CallCode(1, "d", SP_DATA, T1(600)),
    CallCode(1, "x", SP_END, T1(5000))>>

Sketches ==
  {SketchSwitch, SketchShort, SketchPause, SketchLong, SketchMany, SketchDebug,
   SketchWide, SketchPair, SketchZero, SketchMute}

\* the durations fed to parse(): the edges of every registered window, the
\* base times, the midpoints, and the ends of the CodeTime range
Durations ==
  LET edges(k, i) == {code[k].minTime[i] - 1, code[k].minTime[i],
                      code[k].maxTime[i], code[k].maxTime[i] + 1,
                      (code[k].minTime[i] + code[k].maxTime[i]) \div 2,
                      baseTimes[k][i]}
  IN ({1, U16 - 1}
      \cup UNION {UNION {edges(k, i) : i \in 1..code[k].length} : k \in 1..Len(code)})
     \cap 1..(U16 - 1)

\* the code characters compose() is asked for: the first registered name, one
\* that no code has, and the other registered names, in table order
TextChars ==
  LET names == [k \in 1..Len(code) |-> code[k].name]
  IN IF names = <<>> THEN <<"?">>
     ELSE <<Head(names), "?">> \o Tail(names)

\* the protocol names compose() is asked for: the registered ones and one
\* that no protocol has
TextNames == {protocol[i].name : i \in 1..Len(protocol)} \cup {<<"n", "o">>}

\* the sequence texts handed to compose(): "<name> <characters>", a name
\* without the space, and whatever the callback received last
ComposeTexts ==
  {n \o <<" ">> \o Take(TextChars, l) : n \in TextNames, l \in 0..MaxText}
    \cup TextNames
    \cup {emitted[i] : i \in 1..Len(emitted)}

-----------------------------------------------------------------------------
(* State and operations                                                     *)

\* The record of a call: its name and arguments, _seq_length on entry, the
\* locals match, foundCode and retryCandidate of the outer parse(), the number of
\* nested parse() invocations, and the result (the id newProtocol returns, the
\* number of durations compose writes before the closing zero)
NoCall ==
  [op |-> "none", duration |-> 0, text |-> <<>>, len |-> 0, before |-> 0,
   match |-> FALSE, foundCode |-> 0, retryCandidate |-> FALSE, depth |-> 0,
   result |-> 0]

\* The object after construction, with static storage duration: the members
\* without initializer are zero.  The caller's buffer holds anything.
InitObject ==
  /\ protocol = <<>>
  /\ code = <<>>
  /\ baseTimes = <<>>
  /\ debugMode = FALSE
  /\ callbackFunc = FALSE
  /\ seq = <<>>
  /\ seq_codelength = 0
  /\ rawCount = 0
  /\ seq_protocol = 0
  /\ emitted = <<>>
  /\ checks = <<>>
  /\ last = NoCall
  /\ fault = "none"
  /\ todo \in Sketches

\* The receiver: no buffer is handed to compose
Init == InitObject /\ timings = <<>>

\* The sender: the caller's buffer holds anything before the first compose
InitCompose ==
  InitObject /\ \E v \in StaleFill : timings = [i \in 1..TimingsSize |-> v]

\* the next call of setup() is op
Setup(op) == (fault = "none") /\ (todo # <<>>) /\ (Head(todo).op = op)

\* init(debugMode)
InitDebug ==
  /\ Setup("init")
  /\ debugMode' = Head(todo).flag
  /\ last' = [NoCall EXCEPT !.op = "init"]
  /\ todo' = Tail(todo)
  /\ UNCHANGED <<protocol, code, baseTimes, callbackFunc, seq, seq_codelength, rawCount,
                 seq_protocol, timings, emitted, checks, fault>>

\* attachCallback(newFunction)
AttachCallback ==
  /\ Setup("attachCallback")
  /\ callbackFunc' = TRUE
  /\ last' = [NoCall EXCEPT !.op = "attachCallback"]
  /\ todo' = Tail(todo)
  /\ UNCHANGED <<protocol, code, baseTimes, debugMode, seq, seq_codelength, rawCount,
                 seq_protocol, timings, emitted, checks, fault>>

\* newProtocol(name, minLen, maxLen, tolerance, repeat)
NewProtocol ==
  /\ Setup("newProtocol")
  /\ LET c == Head(todo)
         r == NewProtocolOp(protocol, c.name, c.minLen, c.maxLen, c.tolerance,
                            c.repeat)
     IN /\ protocol' = r.protocol
        /\ last' = [NoCall EXCEPT !.op = "newProtocol", !.result = r.result]
  /\ todo' = Tail(todo)
  /\ UNCHANGED <<code, baseTimes, debugMode, callbackFunc, seq, seq_codelength, rawCount,
                 seq_protocol, timings, emitted, checks, fault>>

\* newCode(protId, ch, type, t1 .. t8)
NewCode ==
  /\ Setup("newCode")
  /\ LET c == Head(todo)
     IN /\ \E stale \in StaleWindows :
             code' = NewCodeOp(protocol, code, c.protId, c.ch, c.type, c.times, stale)
        /\ baseTimes' = IF FindProtById(protocol, c.protId) = 0 THEN baseTimes
                        ELSE Append(baseTimes, NonZeroTimes(c.times))
  /\ last' = [NoCall EXCEPT !.op = "newCode"]
  /\ todo' = Tail(todo)
  /\ UNCHANGED <<protocol, debugMode, callbackFunc, seq, seq_codelength, rawCount,
                 seq_protocol, timings, emitted, checks, fault>>

\* the tables and settings parse() reads without changing them
Env ==
  [protocol |-> protocol, callbackFunc |-> callbackFunc, debugMode |-> debugMode,
   stack |-> MaxStack]

\* the matcher state parse() works on
Matcher ==
  [code |-> code, seq |-> seq, seq_codelength |-> seq_codelength,
   raw |-> rawCount,
   seq_protocol |-> seq_protocol]

\* parse(duration), once setup() is through
Parse(duration) ==
  /\ fault = "none"
  /\ todo = <<>>
  /\ LET r == ParseCall(Env, Matcher, duration)
     IN /\ code' = r.code
        /\ seq' = r.seq
        /\ seq_codelength' = r.seq_codelength
        /\ rawCount' = r.raw
        /\ seq_protocol' = r.seq_protocol
        /\ emitted' = r.emitted
        /\ checks' = r.checks
        /\ fault' = r.fault
        /\ last' = [NoCall EXCEPT !.op = "parse", !.duration = duration,
                                  !.before = Len(seq),
                                  !.match = r.match, !.foundCode = r.foundCode,
                                  !.retryCandidate = r.retryCandidate,
                                  !.depth = r.depth]
  /\ UNCHANGED <<protocol, baseTimes, debugMode, callbackFunc, timings, todo>>

\* parse(timings): the list compose() left in the caller's buffer is fed back
ParseTimings ==
  /\ fault = "none"
  /\ todo = <<>>
  /\ \E i \in 1..Len(timings) : timings[i] = 0
  /\ LET r == ParseList(Env, Matcher, timings, 1)
     IN /\ code' = r.m.code
        /\ seq' = r.m.seq
        /\ seq_codelength' = r.m.seq_codelength
        /\ rawCount' = r.m.raw
        /\ seq_protocol' = r.m.seq_protocol
        /\ emitted' = r.emitted
        /\ fault' = r.fault
  /\ checks' = <<>>
  /\ last' = [NoCall EXCEPT !.op = "parse list"]
  /\ UNCHANGED <<protocol, baseTimes, debugMode, callbackFunc, timings, todo>>

\* compose(sequence, timings, len) into the caller's buffer
Compose(sequence, len) ==
  /\ fault = "none"
  /\ todo = <<>>
  /\ LET r == ComposeOp(protocol, code, sequence, len)
         n == Len(r.written)
     IN /\ IF r.fault # "none"
           THEN /\ fault' = r.fault
                /\ timings' = timings
           ELSE IF n > TimingsSize
           THEN /\ fault' = "write past the end of timings"
                /\ timings' = SubSeq(r.written, 1, TimingsSize)
           ELSE /\ fault' = "none"
                /\ timings' = r.written \o SubSeq(timings, n + 1, TimingsSize)
        /\ last' = [NoCall EXCEPT !.op = "compose", !.text = sequence,
                                  !.len = len,
                                  !.result = IF n = 0 THEN 0 ELSE n - 1]
  /\ UNCHANGED <<protocol, code, baseTimes, debugMode, callbackFunc, seq,
                 seq_codelength, rawCount, seq_protocol, emitted, checks, todo>>

\* The receiver: setup(), then one parse() per duration
Next ==
  \/ InitDebug
  \/ AttachCallback
  \/ NewProtocol
  \/ NewCode
  \/ \E duration \in Durations : Parse(duration)

Spec == Init /\ [][Next]_vars

\* The sender: setup(), then compose() calls, each list may be fed back to parse()
NextCompose ==
  \/ InitDebug
  \/ AttachCallback
  \/ NewProtocol
  \/ NewCode
  \/ \E sequence \in ComposeTexts, len \in 0..MaxLen : Compose(sequence, len)
  \/ ParseTimings

SpecCompose == InitCompose /\ [][NextCompose]_vars

-----------------------------------------------------------------------------
(* Vocabulary of the properties                                             *)

\* the matcher is in the IDLE state: sequence empty, no protocol locked, no raw
\* duration counted, every code cnt = 0 and valid
IsIdle(m) ==
  /\ m.seq = <<>>
  /\ m.seq_protocol = 0
  /\ m.seq_codelength = 0
  /\ \A k \in 1..Len(m.code) : m.code[k].cnt = 0 /\ m.code[k].valid

\* setup() is through, nothing has gone wrong, and a callback is attached
Receiving == (todo = <<>>) /\ (fault = "none") /\ callbackFunc

\* the words over the code table, as sequences of code indices, of up to
\* MaxWord codes
MaxWord == 3

\* START code, DATA codes, END code of protocol number pi, as many codes as the
\* protocol's minCodeLen and maxCodeLen allow
CodeWords(pi) ==
  LET p == protocol[pi]
      own(flag) == {k \in 1..Len(code) :
                      code[k].protId = p.id /\ HasFlag(code[k].type, flag)}
  IN {w \in UNION {[1..n -> 1..Len(code)] : n \in 2..MaxWord} :
        /\ p.minCodeLen <= Len(w) /\ Len(w) <= p.maxCodeLen
        /\ w[1] \in own(SP_START)
        /\ w[Len(w)] \in own(SP_END)
        /\ \A j \in 2..(Len(w) - 1) : w[j] \in own(SP_DATA)}

RECURSIVE Flatten(_)
\* the concatenation of a sequence of sequences
Flatten(ss) == IF ss = <<>> THEN <<>> ELSE Head(ss) \o Flatten(Tail(ss))

\* the base times of the codes of word w, in order
Canonical(w) == Flatten([j \in 1..Len(w) |-> baseTimes[w[j]]])

\* the code characters of word w
Characters(w) == [j \in 1..Len(w) |-> code[w[j]].name]

(* C1: from IDLE with a callback attached, the canonical durations of a START  *)
(* code, DATA codes and an END code of a protocol, within its minCodeLen and   *)
(* maxCodeLen, give exactly one callback, with "<name> <characters>", and      *)
(* leave the matcher IDLE.                                                     *)
C1_CanonicalSequenceEmitted ==
  (Receiving /\ IsIdle(Matcher)) =>
    \A pi \in 1..Len(protocol) : \A w \in CodeWords(pi) :
      LET r == ParseList(Env, Matcher, Canonical(w), 1)
      IN /\ r.emitted = <<protocol[pi].name \o <<" ">> \o Characters(w)>>
         /\ IsIdle(r.m)

\* a freshly configured matcher: the code table as newCode left it, nothing
\* received
FreshMatcher ==
  [code |-> [k \in 1..Len(code) |-> [code[k] EXCEPT !.cnt = 0, !.valid = TRUE]],
   seq |-> <<>>, seq_codelength |-> 0, seq_protocol |-> 0, raw |-> 0]

\* code c may take part at this point of the sequence
Eligible(c) ==
  IF seq = <<>> THEN HasFlag(c.type, SP_START)
  ELSE (c.protId = protocol[seq_protocol].id)
       /\ (HasFlag(c.type, SP_DATA) \/ HasFlag(c.type, SP_END))

\* duration is inside the window of the next slot of c, or beyond the minimum
\* of the last slot of an END code
InWindow(c, duration) ==
  LET i == c.cnt + 1
  IN /\ i \in DOMAIN c.minTime
     /\ \/ c.minTime[i] <= duration /\ duration <= c.maxTime[i]
        \/ HasFlag(c.type, SP_END) /\ i = c.length /\ duration > c.minTime[i]

\* some live code accepts duration
LiveAccepts(duration) ==
  \E k \in 1..Len(code) :
    code[k].valid /\ Eligible(code[k]) /\ InWindow(code[k], duration)

\* every canonical sequence is answered as a fresh matcher answers it
RecognizesAsFresh ==
  \A pi \in 1..Len(protocol) : \A w \in CodeWords(pi) :
    ParseList(Env, Matcher, Canonical(w), 1)
      = ParseList(Env, FreshMatcher, Canonical(w), 1)

(* C2: with debug mode off, a duration that no live code accepts, arriving     *)
(* while a sequence is in progress, makes no callback and leaves the matcher   *)
(* fully reset, so that it answers every later sequence as a fresh matcher.    *)
C2_MismatchResetsCleanly ==
  [][(/\ last'.op = "parse"
      /\ ~debugMode
      /\ seq # <<>>
      /\ seq_protocol # 0
      /\ ~LiveAccepts(last'.duration))
     => (/\ emitted' = <<>>
         /\ fault' = "none"
         /\ IsIdle(Matcher')
         /\ Matcher' = FreshMatcher'
         /\ RecognizesAsFresh')]_vars

\* a sequence in progress has just been dropped on a duration nothing accepted
C2_Witness ==
  /\ last.op = "parse"
  /\ last.before > 0
  /\ ~last.match
  /\ ~debugMode
  /\ emitted = <<>>
  /\ IsIdle(Matcher)
  /\ \E pi \in 1..Len(protocol) : \E w \in CodeWords(pi) :
       ParseList(Env, Matcher, Canonical(w), 1).emitted
         = <<protocol[pi].name \o <<" ">> \o Characters(w)>>

\* what the window rule says of check entry e of the last parse(): exactly the
\* durations in [minTime, maxTime] of the next slot are accepted, and on the
\* last slot of an END code every duration above minTime is
SlotRule(e) ==
  LET c == code[e.k]
      i == e.slot + 1
      d == last.duration
      accepted == e.verdict \in {"fits", "end fits"}
  IN IF HasFlag(c.type, SP_END) /\ (i = c.length)
     THEN (d > c.minTime[i]) => accepted
     ELSE accepted <=> (c.minTime[i] <= d /\ d <= c.maxTime[i])

\* the check entries of the last parse() that got as far as the window
Gated ==
  {e \in UNION {{checks[n][j] : j \in 1..Len(checks[n])} : n \in 1..Len(checks)} :
     e.verdict \in {"fits", "end fits", "failed"}}

\* the window rule holds for every code the last parse() looked at
WindowRuleHolds == (last.op = "parse") => \A e \in Gated : SlotRule(e)

(* C5: for a live code that passes the eligibility gate, the duration is       *)
(* accepted exactly when it lies in [minTime, maxTime] of the next slot, so    *)
(* that minTime is accepted and minTime - 1 is rejected, unless that slot is   *)
(* the last one of an END code, where every duration above minTime is          *)
(* accepted whatever maxTime is.                                               *)
C5_SlotAcceptance ==
  (last.op = "parse") =>
    \A e \in Gated :
      LET c == code[e.k]
          i == e.slot + 1
          d == last.duration
          accepted == e.verdict \in {"fits", "end fits"}
      IN /\ SlotRule(e)
         /\ ~(HasFlag(c.type, SP_END) /\ (i = c.length)) =>
              /\ (d = c.minTime[i]) => accepted
              /\ (d = c.minTime[i] - 1) => ~accepted

\* the last parse() handed an accepted sequence to the callback
Accepted == (last.op = "parse") /\ last.match /\ (emitted # <<>>)

(* C3: every sequence handed to the callback under a protocol's name has at    *)
(* least minCodeLen and at most maxCodeLen code characters, for every protocol *)
(* newProtocol accepts, maxLen 0 or 1 included.                                *)
C3_EmittedLengthInBounds ==
  [][Accepted' =>
       LET p == protocol[seq_protocol]
           n == Len(emitted'[1]) - Len(p.name) - 1
       IN p.minCodeLen <= n /\ n <= p.maxCodeLen]_vars

(* C4: the text of an accepted sequence is the locked protocol's name, one     *)
(* space, and every code character accumulated in the attempt, in order, for   *)
(* names of up to 11 characters and sequences as long as maxCodeLen allows.    *)
C4_EmittedTextComplete ==
  [][Accepted' =>
       emitted' = <<protocol[seq_protocol].name \o <<" ">>
                      \o Append(seq, code[last'.foundCode].name)>>]_vars

(* C6: every slot registered with base time T under tolerance p holds          *)
(* minTime = T - floor(T*p/100) and maxTime = T + floor(T*p/100), so that      *)
(* minTime <= T <= maxTime.                                                    *)
C6_WindowAroundBase ==
  \A k \in 1..Len(code) : \A i \in 1..code[k].length :
    LET T == baseTimes[k][i]
        p == protocol[FindProtById(protocol, code[k].protId)].tolerance
        radius == (T * p) \div 100
    IN /\ code[k].minTime[i] = T - radius
       /\ code[k].maxTime[i] = T + radius
       /\ code[k].minTime[i] <= T
       /\ T <= code[k].maxTime[i]

\* the arguments of the newProtocol call that is next in setup() are refused
Refused(c) == (c.minLen > c.maxLen) \/ (c.maxLen >= MAX_SEQUENCE_LENGTH)

(* C7: a rejected registration leaves the tables as they are (newProtocol      *)
(* returns 0 and adds nothing, newCode with an unregistered id adds nothing),  *)
(* and every accepted newProtocol returns a non-zero id that no other          *)
(* registered protocol has.                                                    *)
C7_RegistrationIds ==
  [][/\ (last'.op = "newProtocol" /\ Refused(Head(todo)))
          => (last'.result = 0 /\ protocol' = protocol)
     /\ (last'.op = "newCode"
           /\ \A i \in 1..Len(protocol) : protocol[i].id # Head(todo).protId)
          => (code' = code)
     /\ (last'.op = "newProtocol" /\ ~Refused(Head(todo)))
          => (/\ last'.result # 0
              /\ Len(protocol') = Len(protocol) + 1
              /\ protocol'[Len(protocol')].id = last'.result
              /\ \A i \in 1..Len(protocol) : protocol[i].id # last'.result)]_vars

(* C10: the text of an accepted sequence, composed with a len that is large    *)
(* enough and fed to an IDLE matcher with the same tables, is emitted again:   *)
(* the same protocol name and the same code characters.                        *)
C10_RoundTrip ==
  (Accepted /\ fault = "none") =>
    LET c == ComposeOp(protocol, code, emitted[1], Len(emitted[1]))
    IN /\ c.fault = "none"
       /\ ParseList(Env, FreshMatcher, c.written, 1).emitted = <<emitted[1]>>

\* the durations in the caller's buffer up to the first zero; the whole buffer
\* when it holds no zero
ListIn(buffer) ==
  LET zeros == {i \in 1..Len(buffer) : buffer[i] = 0}
  IN IF zeros = {} THEN buffer ELSE SubSeq(buffer, 1, Least(zeros) - 1)

\* the midpoints compose owes for the code characters of text, the characters
\* without a code left out, len characters at most
Midpoints(text, len) ==
  LET sp == StrchrSpace(text)
      p == protocol[FindProtByName(protocol, ProtnameOf(text))]
      chars == Take(SubSeq(text, sp + 1, Len(text)), len)
      mids(ch) == LET k == FindCode(code, p.id, ch)
                  IN IF k = 0 THEN <<>>
                     ELSE [j \in 1..code[k].length |->
                             (code[k].minTime[j] + code[k].maxTime[j]) \div 2]
  IN Flatten([j \in 1..Len(chars) |-> mids(chars[j])])

(* C8: compose(sequenceText, outBuffer, maxLen) writes at most maxLen          *)
(* durations before the closing zero.                                          *)
C8_ComposeWritesAtMostLen ==
  (last.op = "compose") => (last.result <= last.len)

(* C9: every compose call leaves a zero-terminated list in the buffer: the     *)
(* empty list when the protocol name is unknown, and otherwise the midpoints   *)
(* of the characters that have a code; the call never fails as a whole.        *)
C9_ComposeTerminatesList ==
  (last.op = "compose") =>
    /\ fault = "none"
    /\ \E i \in 1..Len(timings) : timings[i] = 0
    /\ IF FindProtByName(protocol, ProtnameOf(last.text)) = 0
       THEN ListIn(timings) = <<>>
       ELSE ListIn(timings) = Midpoints(last.text, last.len)

(* C11: parse(duration) re-invokes itself at most once for the same duration:  *)
(* the nesting depth is never more than two, the second call is made only     *)
(* after a mismatch that flagged a retry, and the second call flags none.      *)
C11_RetryAtMostOnce ==
  (last.op = "parse") =>
    /\ last.depth \in {1, 2}
    /\ Len(checks) <= 2
    /\ fault # "stack overflow"
    /\ (last.depth = 2) => (~last.match /\ last.retryCandidate)
    /\ (Len(checks) = 2) =>
         \A j \in 1..Len(checks[2]) :
           ~(checks[2][j].verdict = "failed" /\ checks[2][j].slot > 0)

\* a parse() that has called itself, and returned
C11_Witness ==
  /\ last.op = "parse"
  /\ last.depth = 2
  /\ last.retryCandidate
  /\ fault = "none"

\* the texts of the last parse() that are diagnostics
Diagnostics(texts) == SelectSeq(texts, LAMBDA t : t # <<>> /\ Head(t) = "*")

(* C12: in debug mode, a duration no code accepts, after an attempt that has   *)
(* taken more than 10 raw durations, hands "*<raw durations>,<characters>" to *)
(* the callback and then resets everything; after 10 raw durations or fewer,  *)
(* or with debug mode off, no diagnostic is handed over.                       *)
C12_DebugDiagnostic ==
  [][(last'.op = "parse" /\ callbackFunc) =>
       IF debugMode /\ ~last'.match /\ (rawCount > DEBUG_MIN_LENGTH)
       THEN /\ emitted' = <<<<"*">> \o Dec(rawCount) \o <<",">> \o Dec(Len(seq))>>
            /\ IsIdle(Matcher')
       ELSE Diagnostics(emitted') = <<>>]_vars

\* the registry that holds the first protocol and its codes only
EnvAlone == [Env EXCEPT !.protocol = <<protocol[1]>>]

\* a fresh matcher over the codes of the first protocol only
MatcherAlone ==
  [FreshMatcher EXCEPT
     !.code = SelectSeq(FreshMatcher.code, LAMBDA c : c.protId = protocol[1].id)]

\* the texts handed to the callback under the name of the first protocol
UnderFirstName(texts) ==
  LET head == protocol[1].name \o <<" ">>
  IN SelectSeq(texts, LAMBDA t : Take(t, Len(head)) = head)

(* C13: matching happens independently on every protocol: what a duration      *)
(* stream makes the matcher emit under the name of protocol P is the same      *)
(* with P alone in the tables and with further protocols registered after P.   *)
C13_ProtocolsIndependent ==
  (Receiving /\ IsIdle(Matcher) /\ protocol # <<>>) =>
    \A w \in CodeWords(1) :
      UnderFirstName(ParseList(Env, Matcher, Canonical(w), 1).emitted)
        = UnderFirstName(ParseList(EnvAlone, MatcherAlone, Canonical(w), 1).emitted)

\* the live codes that duration would complete in the present state
WouldComplete(duration) ==
  {k \in 1..Len(code) :
     /\ code[k].valid
     /\ Eligible(code[k])
     /\ code[k].cnt + 1 = code[k].length
     /\ InWindow(code[k], duration)}

(* C14: when one duration would complete more than one live code in the same   *)
(* parse() call, only the code registered earliest is taken: one character,    *)
(* the name of that code, is appended to the sequence (which is then kept, or  *)
(* ended with the text of exactly that sequence), and in IDLE the protocol     *)
(* that gets locked is the owner of that earliest code.                        *)
C14_EarliestCompletionWins ==
  [][(last'.op = "parse" /\ Cardinality(WouldComplete(last'.duration)) >= 2) =>
       LET W == WouldComplete(last'.duration)
           k == CHOOSE x \in W : \A y \in W : x <= y
           s == Append(seq, code[k].name)
           owner == IF seq = <<>> THEN FindProtById(protocol, code[k].protId)
                    ELSE seq_protocol
       IN /\ last'.foundCode = k
          /\ last'.depth = 1
          /\ fault' = "none"
          /\ \/ seq' = s /\ emitted' = <<>> /\ seq_protocol' = owner
                           /\ protocol[owner].id = code[k].protId
             \/ IsIdle(Matcher')
                  /\ emitted' \in {<<>>, <<AcceptText(protocol[owner].name, s)>>}]_vars

\* a first character was taken on a fully reset matcher from a one-slot START
\* code while a later one-slot START code of another protocol accepts the same
\* duration
C14_Witness ==
  /\ last.op = "parse" /\ last.foundCode # 0
  /\ rawCount = 1 /\ Len(seq) = 1 /\ fault = "none"
  /\ code[last.foundCode].length = 1
  /\ seq[1] = code[last.foundCode].name
  /\ \E j \in (last.foundCode + 1)..Len(code) :
        /\ code[j].length = 1 /\ HasFlag(code[j].type, SP_START)
        /\ code[j].protId # code[last.foundCode].protId
        /\ code[j].minTime[1] <= last.duration
        /\ last.duration <= code[j].maxTime[1]

\* code c belongs to the protocol at index pi of the protocol table
OwnedBy(c, pi) == (pi # 0) /\ (c.protId = protocol[pi].id)

\* character ch is the name of a code of the locked protocol that may stand
\* first (START) or later (DATA or END) in a sequence
NamesCodeOfLocked(ch, first) ==
  \E k \in 1..Len(code) :
    /\ code[k].name = ch
    /\ OwnedBy(code[k], seq_protocol)
    /\ IF first THEN HasFlag(code[k].type, SP_START)
       ELSE HasFlag(code[k].type, SP_DATA) \/ HasFlag(code[k].type, SP_END)

\* the sequence is non-empty exactly when a protocol is locked, and it is made
\* of a START code and then DATA or END codes of the locked protocol
SequenceOfLocked ==
  /\ (seq # <<>>) <=> (seq_protocol # 0)
  /\ \A n \in 1..Len(seq) : NamesCodeOfLocked(seq[n], n = 1)

(* C15: after every parse() call that returns, the sequence is non-empty       *)
(* exactly when a protocol is locked; its first character is the name of a     *)
(* START-capable code of the locked protocol and every later one the name of   *)
(* a DATA- or END-capable code of that protocol; the code that completes       *)
(* while a sequence is in progress is owned by the locked protocol and has     *)
(* DATA or END capability.                                                     *)
C15_SequenceBelongsToLocked ==
  [][(last'.op = "parse" /\ fault' = "none") =>
       /\ SequenceOfLocked'
       /\ (last'.foundCode # 0) =>
            LET c == code[last'.foundCode]
            IN IF seq = <<>>
               THEN HasFlag(c.type, SP_START)
                    /\ ((seq' # <<>>) => OwnedBy(c, seq_protocol'))
               ELSE OwnedBy(c, seq_protocol)
                    /\ (HasFlag(c.type, SP_DATA) \/ HasFlag(c.type, SP_END))]_vars

\* a second character was taken from a DATA code of the locked protocol while
\* a START code of another protocol accepts the same duration at its first slot
C15_Witness ==
  /\ last.op = "parse" /\ last.foundCode # 0 /\ fault = "none"
  /\ Len(seq) = 2 /\ seq_protocol # 0
  /\ seq[2] = code[last.foundCode].name
  /\ \E j \in 1..Len(code) :
        /\ ~OwnedBy(code[j], seq_protocol)
        /\ code[j].minTime[1] <= last.duration
        /\ last.duration <= code[j].maxTime[1]

\* a code completed in the step and the attempt goes on
CompletedAndGoesOn == (last'.op = "parse") /\ (last'.foundCode # 0) /\ (seq' # <<>>)

\* what a completion changes apart from the raw-duration counter: the name is
\* appended, the protocol is locked at the first character and kept later,
\* every code gets cnt = 0 and valid = true, everything else stays
CompletionFrame ==
  LET c == code[last'.foundCode]
  IN /\ seq' = Append(seq, c.name)
     /\ seq_protocol' = IF seq = <<>> THEN FindProtById(protocol, c.protId)
                        ELSE seq_protocol
     /\ code' = ResetCounters(code)
     /\ \A k \in 1..Len(code) : code'[k].cnt = 0 /\ code'[k].valid
     /\ UNCHANGED <<protocol, baseTimes, debugMode, callbackFunc, timings, todo>>
     /\ emitted' = <<>> /\ fault' = "none"

(* C16: when a code completes and the attempt does not end in that call, the   *)
(* completed code's name is appended to the sequence, the raw-duration count   *)
(* grows by one, the protocol is locked if this was the first character, every *)
(* code gets cnt=0 and valid=true, and nothing else of the matcher changes.    *)
C16_CompletionFrame ==
  [][CompletedAndGoesOn =>
       (CompletionFrame /\ seq_codelength' = seq_codelength + 1)]_vars

(* C19: after every parse() call that returns, the raw-duration counter       *)
(* equals the number of durations accepted since the last full reset, so the   *)
(* first number of a debug diagnostic is the true number of raw durations.     *)
C19_CounterIsTrueCount ==
  (last.op = "parse" /\ fault = "none") => (seq_codelength = rawCount)

\* the step completes a code without END capability as character number
\* MAX_SEQUENCE_LENGTH - 2 of a protocol whose maxCodeLen is another number
HitsCap ==
  /\ last'.foundCode # 0
  /\ Len(seq) + 1 = MAX_SEQUENCE_LENGTH - 2
  /\ ~HasFlag(code[last'.foundCode].type, SP_END)
  /\ protocol[seq_protocol].maxCodeLen # MAX_SEQUENCE_LENGTH - 2

(* C18: the sequence length never exceeds MAX_SEQUENCE_LENGTH - 2 at any       *)
(* point, so the write of a character and of its terminator stays inside the   *)
(* sequence buffer; a sequence that reaches that length with a code that has   *)
(* no END capability, the length not being the locked protocol's maxCodeLen,   *)
(* is fully reset with no emission.                                            *)
C18_SequenceWithinBuffer ==
  [][(last'.op = "parse") =>
       /\ Len(seq') <= MAX_SEQUENCE_LENGTH - 2
       /\ (last'.foundCode # 0) =>
            /\ Len(seq) + 1 <= MAX_SEQUENCE_LENGTH - 2
            /\ Len(seq) + 2 <= MAX_SEQUENCE_LENGTH
       /\ HitsCap => /\ emitted' = <<>>
                     /\ fault' = "none"
                     /\ IsIdle(Matcher')
                     /\ Matcher' = FreshMatcher']_vars

\* a code without END capability completed and the attempt ended in silence
\* although a callback is attached and the protocol takes sequences of two:
\* the sequence was cut at the cap
C18_Witness ==
  /\ last.op = "parse" /\ last.foundCode # 0 /\ fault = "none"
  /\ callbackFunc
  /\ ~HasFlag(code[last.foundCode].type, SP_END)
  /\ seq = <<>> /\ emitted = <<>>
  /\ \A pi \in 1..Len(protocol) :
        (protocol[pi].id = code[last.foundCode].protId) =>
          (protocol[pi].minCodeLen <= 2
           /\ protocol[pi].maxCodeLen = MAX_SEQUENCE_LENGTH - 1)

\* the matcher state a parse() call leaves
MatcherAfter(r) ==
  [code |-> r.code, seq |-> r.seq, seq_codelength |-> r.seq_codelength,
   raw |-> r.raw, seq_protocol |-> r.seq_protocol]

(* C20: while the sequence is empty, a duration that no live code accepts is   *)
(* not lost as a possible start: the matcher state after parse(duration) is    *)
(* the state a fully reset matcher with the same registry reaches on that      *)
(* duration.  With a sequence in progress such a duration is not looked at     *)
(* again and the state after the call is the fully reset state.                *)
C20_RetryAsFreshStart ==
  [][(last'.op = "parse" /\ fault' = "none" /\ ~LiveAccepts(last'.duration)) =>
       IF seq = <<>>
       THEN Matcher' = MatcherAfter(ParseCall(Env, FreshMatcher, last'.duration))
       ELSE last'.depth = 1 /\ Matcher' = FreshMatcher']_vars

\* with the sequence empty a duration failed on stale progress, was looked at
\* again and taken as the first duration of a new attempt
C20_Witness ==
  /\ last.op = "parse" /\ fault = "none"
  /\ last.before = 0 /\ ~last.match /\ last.depth = 2
  /\ rawCount = 1 /\ seq_codelength = 1
  /\ \E k \in 1..Len(code) : code[k].valid /\ code[k].cnt = 1

(* C17: in every state reached by newCode calls with any combination of zero  *)
(* and non-zero times followed by parse() calls, every registered code has     *)
(* cnt <= length <= MAX_CODELENGTH and 1 <= length, so the slot parse reads    *)
(* (index cnt) is a slot that newCode wrote.                                   *)
C17_SlotIndexDefined ==
  /\ fault # "read outside minTime"
  /\ \A k \in 1..Len(code) :
       /\ code[k].cnt <= code[k].length
       /\ code[k].length <= MAX_CODELENGTH
       /\ 1 <= code[k].length
       /\ code[k].valid => (code[k].cnt < code[k].length)

(* C21: the callback is never invoked while no callback is attached: with     *)
(* debug mode on or off, a parse() call on a matcher on which attachCallback   *)
(* has not been called makes no call through the callback slot, and a          *)
(* duration that ends or breaks a sequence only resets the matcher.            *)
C21_NoCallWithoutCallback ==
  [][(last'.op = "parse" /\ ~callbackFunc) =>
       /\ fault' # "call of a null callback"
       /\ emitted' = <<>>
       /\ (seq # <<>> /\ seq' = <<>>) => (Matcher' = FreshMatcher')]_vars

=============================================================================
